---- MODULE Spec2Model ----
(***************************************************************************)
(* Model of lib/auth/iam_join.go: the IAM join method of the auth server.  *)
(*                                                                         *)
(* Text is modelled as follows.  Host names, methods, header names, token  *)
(* names and account ids are atomic strings, compared for equality only.   *)
(* Strings the code takes apart are sequences:                             *)
(*   - a challenge is a sequence of base64 characters;                     *)
(*   - an Authorization header value and a request body are sequences of   *)
(*     lexemes (each lexeme a run of characters without white space, or    *)
(*     the single space " ");                                              *)
(*   - an ARN and an ARN pattern are sequences of characters.              *)
(***************************************************************************)
EXTENDS Integers, Sequences, FiniteSets, TLC

VARIABLES
    pc,         \* position of registerUsingIAMMethod / checkIAMRequest
    peerOk,     \* peer.FromContext(ctx) succeeds
    nodeAddress,\* p.Addr.String()
    challenge,  \* challengeString
    sent,       \* messages handed to srv.Send, in order
    req,        \* *types.RegisterUsingTokenRequest returned by srv.Recv
    token,      \* provisionToken of checkIAMRequest
    httpReq,    \* identityRequest of checkIAMRequest
    cancelled,  \* ctx is cancelled
    resp,       \* *http.Response held by executeSTSIdentityRequest
    identity,   \* awsIdentity returned by executeSTSIdentityRequest
    result,     \* the error registerUsingIAMMethod returns
    events,     \* calls made on the collaborators, in order
    fn          \* state of the function specifications and of SpecTwo

vars == <<pc, peerOk, nodeAddress, challenge, sent, req, token, httpReq,
          cancelled, resp, identity, result, events, fn>>

(***************************************************************************)
(* Bounds of the model.                                                    *)
(***************************************************************************)
\* number of random bytes of a challenge (32 in the code)
ChallengeRawLen == 1
\* longest ARN pattern and ARN, in characters
MaxArnLen == 2
\* longest allow-rule list of the matcher specification
MaxRules == 2
\* attempts running in parallel in the specification of concurrent attempts
NumAttempts == 2

\* values a random byte takes
RandByteVals == {0, 255}

(***************************************************************************)
(* Constants of iam_join.go.                                               *)
(***************************************************************************)
expectedSTSIdentityRequestBody ==
    <<"Action=GetCallerIdentity", "&", "Version=2011-06-15">>
stsHost == "sts.amazonaws.com"
challengeHeaderKey == "X-Teleport-Challenge"
normalizedChallengeHeaderKey == "x-teleport-challenge"
authHeaderKey == "Authorization"
MethodPost == "POST"
JoinMethodIAM == "iam"
StatusOK == 200

(***************************************************************************)
(* Errors: the class trace gives an error, and the place that made it.     *)
(* Class "Wrapped" is an error of no trace class (trace.Wrap of an error   *)
(* of another package).                                                    *)
(***************************************************************************)
Nil == [class |-> "nil", at |-> "", detail |-> <<>>]
AccessDenied(at) == [class |-> "AccessDenied", at |-> at, detail |-> <<>>]
AccessDeniedWith(at, detail) == [class |-> "AccessDenied", at |-> at, detail |-> detail]
BadParameter(at) == [class |-> "BadParameter", at |-> at, detail |-> <<>>]
NotFound(at) == [class |-> "NotFound", at |-> at, detail |-> <<>>]
Wrapped(at) == [class |-> "Wrapped", at |-> at, detail |-> <<>>]

(***************************************************************************)
(* Sequence helpers.                                                       *)
(***************************************************************************)
SeqsUpTo(S, n) == UNION {[1..k -> S] : k \in 0..n}
Take(s, n) == SubSeq(s, 1, n)
Min(a, b) == IF a < b THEN a ELSE b

(***************************************************************************)
(* base64.RawStdEncoding.                                                  *)
(***************************************************************************)
encodeStd ==
    <<"A","B","C","D","E","F","G","H","I","J","K","L","M","N","O","P",
      "Q","R","S","T","U","V","W","X","Y","Z","a","b","c","d","e","f",
      "g","h","i","j","k","l","m","n","o","p","q","r","s","t","u","v",
      "w","x","y","z","0","1","2","3","4","5","6","7","8","9","+","/">>

RECURSIVE Encode(_)
Encode(src) ==
    IF Len(src) = 0 THEN <<>>
    ELSE IF Len(src) = 1 THEN
        <<encodeStd[(src[1] \div 4) + 1],
          encodeStd[((src[1] % 4) * 16) + 1]>>
    ELSE IF Len(src) = 2 THEN
        <<encodeStd[(src[1] \div 4) + 1],
          encodeStd[((src[1] % 4) * 16 + (src[2] \div 16)) + 1],
          encodeStd[((src[2] % 16) * 4) + 1]>>
    ELSE
        <<encodeStd[(src[1] \div 4) + 1],
          encodeStd[((src[1] % 4) * 16 + (src[2] \div 16)) + 1],
          encodeStd[((src[2] % 16) * 4 + (src[3] \div 64)) + 1],
          encodeStd[(src[3] % 64) + 1]>>
        \o Encode(SubSeq(src, 4, Len(src)))

\* the challenge strings rand.Read and the encoding can produce
RawChallenges == [1..ChallengeRawLen -> RandByteVals]
Challenges == {Encode(raw) : raw \in RawChallenges}

(***************************************************************************)
(* net/http: header lookup.  A header is a sequence of <<name, value>>     *)
(* lines; http.ReadRequest stores each under its canonical name and Get    *)
(* returns the first value of a name, or the empty string.                 *)
(***************************************************************************)
CanonicalMIMEHeaderKey(name) ==
    CASE name = "x-teleport-challenge" -> "X-Teleport-Challenge"
      [] name = "X-TELEPORT-CHALLENGE" -> "X-Teleport-Challenge"
      [] name = "authorization" -> "Authorization"
      [] name = "host" -> "Host"
      [] OTHER -> name

RECURSIVE HeaderGet(_, _)
HeaderGet(header, key) ==
    IF header = <<>> THEN <<>>
    ELSE IF header[1][1] = CanonicalMIMEHeaderKey(key) THEN header[1][2]
    ELSE HeaderGet(Tail(header), key)

(***************************************************************************)
(* A request body is a reader: the bytes it yields from pos on, and        *)
(* whether the read ends in an error instead of EOF.                       *)
(***************************************************************************)
NewBuffer(bytes) == [data |-> bytes, pos |-> 0, fail |-> FALSE]
\* io.ReadAll: the bytes read, the error, and the reader afterwards
ReadAll(body) ==
    [bytes |-> SubSeq(body.data, body.pos + 1, Len(body.data)),
     err |-> body.fail,
     body |-> [body EXCEPT !.pos = Len(body.data)]]

(***************************************************************************)
(* signedHeadersRe:                                                        *)
(*  ^AWS4-HMAC-SHA256 Credential=\S+, SignedHeaders=(\S+), Signature=\S+$  *)
(* over lexemes.  \S+ is one or more lexemes other than the space.         *)
(***************************************************************************)
NonSpace(s) == \A i \in 1..Len(s) : s[i] # " "
ReLit1 == <<"AWS4-HMAC-SHA256", " ", "Credential=">>
ReLit2 == <<",", " ", "SignedHeaders=">>
ReLit3 == <<",", " ", "Signature=">>

\* the <<i, j>> at which the second and third literal start in a match
ReMatches(s) ==
    {m \in (1..Len(s)) \X (1..Len(s)) :
        /\ Len(s) >= m[2] + 3
        /\ m[1] >= 5
        /\ m[2] >= m[1] + 4
        /\ SubSeq(s, 1, 3) = ReLit1
        /\ NonSpace(SubSeq(s, 4, m[1] - 1))
        /\ SubSeq(s, m[1], m[1] + 2) = ReLit2
        /\ NonSpace(SubSeq(s, m[1] + 3, m[2] - 1))
        /\ SubSeq(s, m[2], m[2] + 2) = ReLit3
        /\ NonSpace(SubSeq(s, m[2] + 3, Len(s)))}

\* signedHeadersRe.FindStringSubmatch: <<>> without a match, else the full
\* match and the SignedHeaders group
FindStringSubmatch(s) ==
    IF ReMatches(s) = {} THEN <<>>
    ELSE LET m == CHOOSE m \in ReMatches(s) : TRUE
         IN  <<s, SubSeq(s, m[1] + 3, m[2] - 1)>>

\* strings.Split(s, ";")
RECURSIVE Split(_, _)
Split(s, sep) ==
    IF \A i \in 1..Len(s) : s[i] # sep THEN <<s>>
    ELSE LET i == CHOOSE i \in 1..Len(s) :
                     s[i] = sep /\ \A j \in 1..(i - 1) : s[j] # sep
         IN  <<SubSeq(s, 1, i - 1)>> \o Split(SubSeq(s, i + 1, Len(s)), sep)

\* utils.SliceContainsStr
SliceContainsStr(slice, str) == \E i \in 1..Len(slice) : slice[i] = <<str>>

(***************************************************************************)
(* validateSTSIdentityRequest: the error, and the request afterwards.      *)
(***************************************************************************)
\* a host check made on the URL forced by parseSTSRequest
ValHostCheck_URL(r) == r.URL.Host # stsHost

ValHostCheck(r) == r.Host # stsHost

ValMethodCheck(r) == r.Method # MethodPost

\* a challenge check that only asks for the header to be there
ValChallengeCheck_Presence(r, chal) ==
    HeaderGet(r.Header, challengeHeaderKey) = <<>>

ValChallengeCheck(r, chal) == HeaderGet(r.Header, challengeHeaderKey) # chal

ValAuthInvalid(r) ==
    Len(FindStringSubmatch(HeaderGet(r.Header, authHeaderKey))) < 2

\* a signed-header check that searches the list as text (strings.Contains)
ValNotSigned_Contains(r) ==
    LET sh == FindStringSubmatch(HeaderGet(r.Header, authHeaderKey))[2]
    IN  ~\E i \in 1..Len(sh) : sh[i] = normalizedChallengeHeaderKey

ValNotSigned(r) ==
    ~SliceContainsStr(
        Split(FindStringSubmatch(HeaderGet(r.Header, authHeaderKey))[2], ";"),
        normalizedChallengeHeaderKey)

ValReadErr(r) == Wrapped("body-read")

ValBodyErr(r) == BadParameter("body")

ValBodyMismatch(bytes) == bytes # expectedSTSIdentityRequestBody

\* a validator that reads and compares the body before the other checks
validateSTSIdentityRequest_BodyFirst(r, chal) ==
    LET rd == ReadAll(r.Body)
        r2 == [r EXCEPT !.Body = NewBuffer(rd.bytes)]
    IN  IF rd.err
        THEN [err |-> ValReadErr(r), req |-> [r EXCEPT !.Body = rd.body]]
        ELSE IF ValBodyMismatch(rd.bytes) THEN [err |-> ValBodyErr(r), req |-> r2]
        ELSE IF ValHostCheck(r) THEN [err |-> AccessDenied("host"), req |-> r2]
        ELSE IF ValMethodCheck(r)
            THEN [err |-> AccessDenied("method"), req |-> r2]
        ELSE IF ValChallengeCheck(r, chal)
            THEN [err |-> AccessDenied("challenge"), req |-> r2]
        ELSE IF ValAuthInvalid(r)
            THEN [err |-> AccessDenied("auth-header"), req |-> r2]
        ELSE IF ValNotSigned(r)
            THEN [err |-> AccessDenied("signed-headers"), req |-> r2]
        ELSE [err |-> Nil, req |-> r2]

\* a validator that leaves the body as io.ReadAll left it
validateSTSIdentityRequest_NoRestore(r, chal) ==
    IF ValHostCheck(r) THEN [err |-> AccessDenied("host"), req |-> r]
    ELSE IF ValMethodCheck(r) THEN [err |-> AccessDenied("method"), req |-> r]
    ELSE IF ValChallengeCheck(r, chal)
        THEN [err |-> AccessDenied("challenge"), req |-> r]
    ELSE IF ValAuthInvalid(r)
        THEN [err |-> AccessDenied("auth-header"), req |-> r]
    ELSE IF ValNotSigned(r)
        THEN [err |-> AccessDenied("signed-headers"), req |-> r]
    ELSE LET rd == ReadAll(r.Body)
             r2 == [r EXCEPT !.Body = rd.body]
         IN IF rd.err THEN [err |-> ValReadErr(r), req |-> r2]
            ELSE IF ValBodyMismatch(rd.bytes) THEN [err |-> ValBodyErr(r), req |-> r2]
            ELSE [err |-> Nil, req |-> r2]

validateSTSIdentityRequest(r, chal) ==
    IF ValHostCheck(r) THEN [err |-> AccessDenied("host"), req |-> r]
    ELSE IF ValMethodCheck(r) THEN [err |-> AccessDenied("method"), req |-> r]
    ELSE IF ValChallengeCheck(r, chal)
        THEN [err |-> AccessDenied("challenge"), req |-> r]
    ELSE IF ValAuthInvalid(r)
        THEN [err |-> AccessDenied("auth-header"), req |-> r]
    ELSE IF ValNotSigned(r)
        THEN [err |-> AccessDenied("signed-headers"), req |-> r]
    ELSE LET rd == ReadAll(r.Body) IN
        IF rd.err
        THEN [err |-> ValReadErr(r), req |-> [r EXCEPT !.Body = rd.body]]
        ELSE LET r2 == [r EXCEPT !.Body = NewBuffer(rd.bytes)] IN
            IF ValBodyMismatch(rd.bytes)
            THEN [err |-> ValBodyErr(r), req |-> r2]
            ELSE [err |-> Nil, req |-> r2]

(***************************************************************************)
(* http.ReadRequest on the bytes the node sent.  The bytes are given by    *)
(* their parts: whether they are an HTTP request at all, the method and    *)
(* target of the request line, the header lines, and the bytes after the   *)
(* blank line.                                                             *)
(***************************************************************************)
URLHost(target) ==
    CASE target = "https://sts.amazonaws.com/" -> "sts.amazonaws.com"
      [] target = "https://evil.example.com/" -> "evil.example.com"
      [] OTHER -> ""

RECURSIVE ReadMIMEHeader(_)
ReadMIMEHeader(lines) ==
    IF lines = <<>> THEN <<>>
    ELSE <<<<CanonicalMIMEHeaderKey(lines[1][1]), lines[1][2]>>>>
         \o ReadMIMEHeader(Tail(lines))

RECURSIVE DeleteHeader(_, _)
DeleteHeader(header, key) ==
    IF header = <<>> THEN <<>>
    ELSE IF header[1][1] = key THEN DeleteHeader(Tail(header), key)
    ELSE <<header[1]>> \o DeleteHeader(Tail(header), key)

\* the body reader of a request with the given Content-Length (-1: none)
ReadBody(contentLength, payload) ==
    IF contentLength <= 0 THEN NewBuffer(<<>>)
    ELSE IF contentLength <= Len(payload)
        THEN NewBuffer(Take(payload, contentLength))
    ELSE [data |-> payload, pos |-> 0, fail |-> TRUE]

ReadRequest(raw) ==
    LET header == ReadMIMEHeader(raw.lines)
        host == IF URLHost(raw.target) # "" THEN URLHost(raw.target)
                ELSE HeaderGet(header, "Host")
    IN  [Method |-> raw.method,
         Host |-> host,
         RequestURI |-> raw.target,
         URL |-> [Scheme |-> IF URLHost(raw.target) # "" THEN "https" ELSE "",
                  Host |-> URLHost(raw.target)],
         Header |-> DeleteHeader(header, "Host"),
         Body |-> ReadBody(raw.contentLength, raw.payload)]

ParseErr(raw) == Wrapped("parse")

\* a parser that keeps the URL of the request line
parseSTSRequest_KeepURL(raw) ==
    IF ~raw.wellFormed THEN [err |-> ParseErr(raw), req |-> <<>>]
    ELSE [err |-> Nil, req |-> [ReadRequest(raw) EXCEPT !.RequestURI = ""]]

\* parseSTSRequest: the error and the request
parseSTSRequest(raw) ==
    IF ~raw.wellFormed THEN [err |-> ParseErr(raw), req |-> <<>>]
    ELSE [err |-> Nil,
          req |-> [ReadRequest(raw) EXCEPT
                      !.RequestURI = "",
                      !.URL = [Scheme |-> "https", Host |-> stsHost]]]

(***************************************************************************)
(* arnMatches.  The pattern is rewritten and handed to regexp.MatchString; *)
(* the regular expressions are those over the characters the model draws   *)
(* patterns from: letters, ".", "*", "+" and "[" (never closed).           *)
(***************************************************************************)
RECURSIVE ReplaceAll(_, _, _)
ReplaceAll(s, old, new) ==
    IF s = <<>> THEN <<>>
    ELSE (IF s[1] = old THEN new ELSE <<s[1]>>) \o ReplaceAll(Tail(s), old, new)

ArnRegexp(pattern) ==
    <<"^">> \o ReplaceAll(ReplaceAll(pattern, "*", <<".", "*">>), "?", <<".">>)
    \o <<"$">>

IsRepeatOp(c) == c \in {"*", "+"}

\* regexp/syntax.Parse fails: a character class that is never closed, or a
\* repetition operator applied to a repetition
RegexpSyntaxError(re) ==
    \/ \E i \in 1..Len(re) : re[i] = "["
    \/ \E i \in 2..Len(re) : IsRepeatOp(re[i]) /\ IsRepeatOp(re[i - 1])

\* the parsed expression: each atom with the repetition applied to it
RECURSIVE RegexpItems(_)
RegexpItems(re) ==
    IF re = <<>> THEN <<>>
    ELSE IF Len(re) >= 2 /\ IsRepeatOp(re[2])
        THEN <<[c |-> re[1], rep |-> re[2]]>>
             \o RegexpItems(SubSeq(re, 3, Len(re)))
    ELSE <<[c |-> re[1], rep |-> "1"]>> \o RegexpItems(Tail(re))

\* one atom against the text s at offset i (0-based): the offsets after it
AtomStep(c, s, i) ==
    CASE c = "^" -> IF i = 0 THEN {i} ELSE {}
      [] c = "$" -> IF i = Len(s) THEN {i} ELSE {}
      [] c = "." -> IF i < Len(s) THEN {i + 1} ELSE {}
      [] OTHER -> IF i < Len(s) /\ s[i + 1] = c THEN {i + 1} ELSE {}

RECURSIVE AtomStar(_, _, _, _)
\* offsets reachable from the set from by zero or more atoms
AtomStar(c, s, from, n) ==
    IF n = 0 THEN from
    ELSE AtomStar(c, s, from \cup UNION {AtomStep(c, s, i) : i \in from}, n - 1)

RECURSIVE RegexpEnds(_, _, _)
\* offsets at which a match of items starting in the set from can end
RegexpEnds(items, s, from) ==
    IF items = <<>> THEN from
    ELSE LET it == items[1]
             one == UNION {AtomStep(it.c, s, i) : i \in from}
             next == CASE it.rep = "1" -> one
                       [] it.rep = "+" -> AtomStar(it.c, s, one, Len(s))
                       [] OTHER -> AtomStar(it.c, s, from, Len(s))
         IN  RegexpEnds(Tail(items), s, next)

\* regexp.MatchString: an unanchored search
MatchString(re, s) ==
    IF RegexpSyntaxError(re) THEN [matched |-> FALSE, err |-> TRUE]
    ELSE [matched |-> RegexpEnds(RegexpItems(re), s, 0..Len(s)) # {},
          err |-> FALSE]

arnMatches(pattern, arn) == MatchString(ArnRegexp(pattern), arn)

(***************************************************************************)
(* checkIAMAllowRules.  An unset account is "", an unset ARN pattern <<>>. *)
(***************************************************************************)
AccountMismatch(rule, id) == rule.AWSAccount # "" /\ rule.AWSAccount # id.Account

\* an allow-rule loop that falls through to success
NoRuleMatched_FailOpen == Nil

NoRuleMatched == AccessDenied("allow-rules")

RECURSIVE checkIAMAllowRules(_, _)
checkIAMAllowRules(id, allowRules) ==
    IF allowRules = <<>> THEN NoRuleMatched
    ELSE LET rule == allowRules[1] IN
        IF AccountMismatch(rule, id)
        THEN checkIAMAllowRules(id, Tail(allowRules))
        ELSE IF Len(rule.AWSARN) > 0
        THEN LET m == arnMatches(rule.AWSARN, id.Arn) IN
             IF m.err THEN Wrapped("arn-pattern")
             ELSE IF ~m.matched THEN checkIAMAllowRules(id, Tail(allowRules))
             ELSE Nil
        ELSE Nil

(***************************************************************************)
(* The collaborators of one attempt: the token store, the node at the      *)
(* other end of the stream, and the identity endpoint.                     *)
(***************************************************************************)
Rule(account, arn) == [AWSAccount |-> account, AWSARN |-> arn]

\* a.GetCache().GetToken: the tokens in the store, by name
Tokens ==
    [name \in {"tok-1", "tok-arn", "tok-none", "tok-ec2"} |->
        CASE name = "tok-1" ->
                [JoinMethod |-> "iam", Allow |-> <<Rule("111111111111", <<>>)>>]
          [] name = "tok-arn" ->
                [JoinMethod |-> "iam",
                 Allow |-> <<Rule("333333333333", <<>>), Rule("", <<"a", "*">>)>>]
          [] name = "tok-none" ->
                [JoinMethod |-> "iam", Allow |-> <<>>]
          [] OTHER ->
                [JoinMethod |-> "ec2", Allow |-> <<Rule("111111111111", <<>>)>>]]

TokenNames == DOMAIN Tokens \cup {"tok-missing"}

\* Authorization header values a node sends
AuthHeader(signedHeaders) ==
    ReLit1 \o <<"AKIA/sts/aws4_request">> \o ReLit2 \o signedHeaders
    \o ReLit3 \o <<"5d672d79c15b13162d9279b0855cfba6">>

FlowAuthHeaders ==
    {<<>>,
     <<"Bearer", " ", "5d672d79c15b13162d9279b0855cfba6">>,
     AuthHeader(<<"host", ";", "x-teleport-challenge">>),
     AuthHeader(<<"host">>),
     AuthHeader(<<"host", ";", "X-Teleport-Challenge">>),
     AuthHeader(<<"x-teleport-challenge", "-2", ";", "host">>)}

\* <<Content-Length, bytes after the blank line>> a node sends
FlowBodies ==
    {<<3, expectedSTSIdentityRequestBody>>,
     <<4, expectedSTSIdentityRequestBody>>,
     <<-1, expectedSTSIdentityRequestBody>>,
     <<4, expectedSTSIdentityRequestBody \o <<" ">>>>,
     <<3, expectedSTSIdentityRequestBody \o <<" ">>>>,
     <<3, <<"Action=GetSessionToken", "&", "Version=2011-06-15">>>>,
     <<0, <<>>>>}

Line(name, value) == <<<<name, value>>>>

ChallengeLines ==
    {<<>>} \cup {Line(n, c) : n \in {"X-Teleport-Challenge", "x-teleport-challenge"},
                              c \in Challenges}

RawMalformed ==
    [wellFormed |-> FALSE, method |-> "", target |-> "", lines |-> <<>>,
     contentLength |-> -1, payload |-> <<>>]

\* the signed-request bytes a node sends
FlowRaws ==
    {RawMalformed} \cup
    {[wellFormed |-> TRUE, method |-> m, target |-> t,
      lines |-> Line("Host", h) \o cl \o
                (IF a = <<>> THEN <<>> ELSE Line("Authorization", a)),
      contentLength |-> b[1], payload |-> b[2]] :
        m \in {"POST", "GET"},
        t \in {"/", "https://sts.amazonaws.com/", "https://evil.example.com/"},
        h \in {"sts.amazonaws.com", "evil.example.com"},
        cl \in ChallengeLines,
        a \in FlowAuthHeaders,
        b \in FlowBodies}

\* what the identity endpoint answers
Identities ==
    {[Account |-> "111111111111", Arn |-> <<"a", "b">>],
     [Account |-> "222222222222", Arn |-> <<"a", "b">>],
     [Account |-> "222222222222", Arn |-> <<"b">>],
     [Account |-> "", Arn |-> <<>>]}

Responses ==
    {[StatusCode |-> 200, json |-> TRUE, id |-> i] : i \in Identities}
    \cup {[StatusCode |-> 200, json |-> FALSE, id |-> <<>>],
          [StatusCode |-> 403, json |-> TRUE, id |-> <<>>]}

NoValue == <<>>

(***************************************************************************)
(* registerUsingIAMMethod and checkIAMRequest, one action per step.        *)
(***************************************************************************)
Event(op, arg) == [op |-> op, arg |-> arg]

Init ==
    /\ pc = "start"
    /\ peerOk \in BOOLEAN
    /\ nodeAddress = "10.0.0.7:3025"
    /\ challenge = NoValue
    /\ sent = <<>>
    /\ req = NoValue
    /\ token = NoValue
    /\ httpReq = NoValue
    /\ cancelled = FALSE
    /\ resp = NoValue
    /\ identity = NoValue
    /\ result = NoValue
    /\ events = <<>>
    /\ fn = NoValue

\* a return that drops the error
Return_Nil(err) ==
    /\ pc' = "done"
    /\ result' = Nil

\* return err
Return(err) ==
    /\ pc' = "done"
    /\ result' = err

\* peer.FromContext
PeerFromContext ==
    /\ pc = "start"
    /\ events' = Append(events, Event("peer.FromContext", NoValue))
    /\ IF peerOk
       THEN pc' = "rand" /\ UNCHANGED result
       ELSE Return(AccessDenied("peer"))
    /\ UNCHANGED <<peerOk, nodeAddress, challenge, sent, req, token, httpReq,
                   cancelled, resp, identity, fn>>

\* rand.Read and the base64 encoding
GenerateChallenge ==
    /\ pc = "rand"
    /\ events' = Append(events, Event("rand.Read", NoValue))
    /\ \/ /\ Return(Wrapped("rand"))
          /\ UNCHANGED challenge
       \/ /\ \E raw \in RawChallenges : challenge' = Encode(raw)
          /\ pc' = "send"
          /\ UNCHANGED result
    /\ UNCHANGED <<peerOk, nodeAddress, sent, req, token, httpReq,
                   cancelled, resp, identity, fn>>

\* a Send of the challenge whose error is ignored
SendChallenge_IgnoreErr ==
    /\ pc = "send"
    /\ events' = Append(events, Event("Send", [Challenge |-> challenge]))
    /\ \/ UNCHANGED sent
       \/ sent' = Append(sent, [Challenge |-> challenge])
    /\ pc' = "recv"
    /\ UNCHANGED <<peerOk, nodeAddress, challenge, req, token, httpReq,
                   cancelled, resp, identity, result, fn>>

\* srv.Send of the challenge
SendChallenge ==
    /\ pc = "send"
    /\ events' = Append(events, Event("Send", [Challenge |-> challenge]))
    /\ \/ /\ Return(Wrapped("send"))
          /\ UNCHANGED sent
       \/ /\ sent' = Append(sent, [Challenge |-> challenge])
          /\ pc' = "recv"
          /\ UNCHANGED result
    /\ UNCHANGED <<peerOk, nodeAddress, challenge, req, token, httpReq,
                   cancelled, resp, identity, fn>>

\* the messages srv.Recv can return: any token name, any request bytes and
\* any RemoteAddr the node chose to write
RecvMessages ==
    {[Token |-> name, STSIdentityRequest |-> raw, RemoteAddr |-> addr] :
        name \in TokenNames, raw \in FlowRaws, addr \in {"", "6.6.6.6:3025"}}

\* a Recv after which the node's RemoteAddr is kept
Recv_KeepAddr ==
    /\ pc = "recv"
    /\ \/ /\ events' = Append(events, Event("Recv", NoValue))
          /\ Return(Wrapped("recv"))
          /\ UNCHANGED req
       \/ /\ \E m \in RecvMessages :
                /\ events' = Append(events, Event("Recv", m))
                /\ req' = m
          /\ pc' = "token"
          /\ UNCHANGED result
    /\ UNCHANGED <<peerOk, nodeAddress, challenge, sent, token, httpReq,
                   cancelled, resp, identity, fn>>

\* srv.Recv, and req.RemoteAddr = nodeAddress
Recv ==
    /\ pc = "recv"
    /\ \/ /\ events' = Append(events, Event("Recv", NoValue))
          /\ Return(Wrapped("recv"))
          /\ UNCHANGED req
       \/ /\ \E m \in RecvMessages :
                /\ events' = Append(events, Event("Recv", m))
                /\ req' = [m EXCEPT !.RemoteAddr = nodeAddress]
          /\ pc' = "token"
          /\ UNCHANGED result
    /\ UNCHANGED <<peerOk, nodeAddress, challenge, sent, token, httpReq,
                   cancelled, resp, identity, fn>>

\* a lookup that leaves the join method unchecked
JoinMethodMismatch_Unchecked(tok) == FALSE

JoinMethodMismatch(tok) == tok.JoinMethod # JoinMethodIAM

\* a.GetCache().GetToken and the join-method check
GetToken ==
    /\ pc = "token"
    /\ events' = Append(events, Event("GetToken", req.Token))
    /\ \/ /\ Return(Wrapped("token-store"))
          /\ UNCHANGED token
       \/ /\ req.Token \notin DOMAIN Tokens
          /\ Return(NotFound("token"))
          /\ UNCHANGED token
       \/ /\ req.Token \in DOMAIN Tokens
          /\ token' = Tokens[req.Token]
          /\ IF JoinMethodMismatch(Tokens[req.Token])
             THEN Return(AccessDenied("join-method"))
             ELSE pc' = "parse" /\ UNCHANGED result
    /\ UNCHANGED <<peerOk, nodeAddress, challenge, sent, req, httpReq,
                   cancelled, resp, identity, fn>>

\* parseSTSRequest(req.STSIdentityRequest)
ParseRequest ==
    /\ pc = "parse"
    /\ events' = Append(events, Event("parseSTSRequest", NoValue))
    /\ LET p == parseSTSRequest(req.STSIdentityRequest) IN
        IF p.err # Nil
        THEN Return(p.err) /\ UNCHANGED httpReq
        ELSE httpReq' = p.req /\ pc' = "validate" /\ UNCHANGED result
    /\ UNCHANGED <<peerOk, nodeAddress, challenge, sent, req, token,
                   cancelled, resp, identity, fn>>

\* validateSTSIdentityRequest(identityRequest, challenge)
ValidateRequest ==
    /\ pc = "validate"
    /\ events' = Append(events, Event("validateSTSIdentityRequest", challenge))
    /\ LET v == validateSTSIdentityRequest(httpReq, challenge) IN
        /\ httpReq' = v.req
        /\ IF v.err # Nil
           THEN Return(v.err)
           ELSE pc' = "execute" /\ UNCHANGED result
    /\ UNCHANGED <<peerOk, nodeAddress, challenge, sent, req, token,
                   cancelled, resp, identity, fn>>

\* executeSTSIdentityRequest: client.Do(req.WithContext(ctx)) is called
ClientDo ==
    /\ pc = "execute"
    /\ events' = Append(events, Event("Do", httpReq))
    /\ pc' = "do"
    /\ UNCHANGED <<peerOk, nodeAddress, challenge, sent, req, token, httpReq,
                   cancelled, resp, identity, result, fn>>

\* the caller cancels ctx while the call to the identity endpoint is in
\* flight: before the response arrives, or while its body is read
CancelContext ==
    /\ pc \in {"do", "read"}
    /\ ~cancelled
    /\ cancelled' = TRUE
    /\ UNCHANGED <<pc, peerOk, nodeAddress, challenge, sent, req, token,
                   httpReq, resp, identity, result, events, fn>>

\* a transport failure reported as a denial
DoErr_Denied == AccessDenied("sts-do")

DoErr == Wrapped("sts-do")

\* client.Do returns
ClientDoReturns ==
    /\ pc = "do"
    /\ \/ /\ Return(DoErr)
          /\ UNCHANGED resp
       \/ /\ ~cancelled
          /\ \E r \in Responses : resp' = r
          /\ pc' = "read"
          /\ UNCHANGED result
    /\ UNCHANGED <<peerOk, nodeAddress, challenge, sent, req, token, httpReq,
                   cancelled, identity, events, fn>>

\* a failed body read reported as a denial
ReadRespErr_Denied == AccessDenied("sts-read")

ReadRespErr == Wrapped("sts-read")

StatusErr(r) == AccessDenied("sts-status")

\* io.ReadAll(resp.Body), the status check and json.Unmarshal
ReadResponse ==
    /\ pc = "read"
    /\ \/ /\ Return(ReadRespErr)
          /\ UNCHANGED identity
       \/ /\ ~cancelled
          /\ IF resp.StatusCode # StatusOK
             THEN Return(StatusErr(resp)) /\ UNCHANGED identity
             ELSE IF ~resp.json
             THEN Return(Wrapped("sts-json")) /\ UNCHANGED identity
             ELSE identity' = resp.id /\ pc' = "rules" /\ UNCHANGED result
    /\ UNCHANGED <<peerOk, nodeAddress, challenge, sent, req, token, httpReq,
                   cancelled, resp, events, fn>>

\* checkIAMAllowRules(identity, provisionToken)
CheckAllowRules ==
    /\ pc = "rules"
    /\ events' = Append(events, Event("checkIAMAllowRules", identity))
    /\ LET err == checkIAMAllowRules(identity, token.Allow) IN
        IF err # Nil
        THEN Return(err)
        ELSE pc' = "register" /\ UNCHANGED result
    /\ UNCHANGED <<peerOk, nodeAddress, challenge, sent, req, token, httpReq,
                   cancelled, resp, identity, fn>>

\* a.RegisterUsingToken(*req)
RegisterUsingToken ==
    /\ pc = "register"
    /\ events' = Append(events, Event("RegisterUsingToken", req))
    /\ \/ \E err \in {Wrapped("register"), AccessDenied("register")} : Return(err)
       \/ pc' = "certs" /\ UNCHANGED result
    /\ UNCHANGED <<peerOk, nodeAddress, challenge, sent, req, token, httpReq,
                   cancelled, resp, identity, fn>>

\* srv.Send of the certificates
SendCerts ==
    /\ pc = "certs"
    /\ events' = Append(events, Event("Send", [Certs |-> "certs"]))
    /\ \/ /\ Return(Wrapped("send"))
          /\ UNCHANGED sent
       \/ /\ sent' = Append(sent, [Certs |-> "certs"])
          /\ Return(Nil)
    /\ UNCHANGED <<peerOk, nodeAddress, challenge, req, token, httpReq,
                   cancelled, resp, identity, fn>>

Next ==
    \/ PeerFromContext
    \/ GenerateChallenge
    \/ SendChallenge
    \/ Recv
    \/ GetToken
    \/ ParseRequest
    \/ ValidateRequest
    \/ ClientDo
    \/ CancelContext
    \/ ClientDoReturns
    \/ ReadResponse
    \/ CheckAllowRules
    \/ RegisterUsingToken
    \/ SendCerts

Spec == Init /\ [][Next]_vars

(***************************************************************************)
(* arnMatches and checkIAMAllowRules as functions: the inputs are drawn    *)
(* in the initial state and one step applies the function.                 *)
(***************************************************************************)
PatternChars == {"a", "*", "?", ".", "+", "["}
ArnChars == {"a", "b", "."}

Idle ==
    /\ pc = "fn"
    /\ peerOk = FALSE
    /\ nodeAddress = ""
    /\ challenge = NoValue
    /\ sent = <<>>
    /\ req = NoValue
    /\ token = NoValue
    /\ httpReq = NoValue
    /\ cancelled = FALSE
    /\ resp = NoValue
    /\ identity = NoValue
    /\ result = NoValue
    /\ events = <<>>

InitArn ==
    /\ Idle
    /\ fn \in {[op |-> "arnMatches", pattern |-> p, arn |-> a, done |-> FALSE,
                out |-> NoValue] :
                    p \in SeqsUpTo(PatternChars, MaxArnLen),
                    a \in SeqsUpTo(ArnChars, MaxArnLen)}

ArnMatchesStep ==
    /\ fn.op = "arnMatches"
    /\ ~fn.done
    /\ fn' = [fn EXCEPT !.done = TRUE, !.out = arnMatches(fn.pattern, fn.arn)]
    /\ UNCHANGED <<pc, peerOk, nodeAddress, challenge, sent, req, token,
                   httpReq, cancelled, resp, identity, result, events>>

SpecArn == InitArn /\ [][ArnMatchesStep]_vars

RuleAccounts == {"", "111111111111", "222222222222"}
RulePatterns == {<<>>, <<"a", "*">>, <<"a", ".">>, <<"[">>}
RuleSet == {Rule(acc, arn) : acc \in RuleAccounts, arn \in RulePatterns}
RuleIdentities ==
    {[Account |-> acc, Arn |-> arn] :
        acc \in {"111111111111", "222222222222"},
        arn \in {<<"a", "b">>, <<"a", ".">>, <<"b">>}}

InitRules ==
    /\ Idle
    /\ fn \in {[op |-> "checkIAMAllowRules", identity |-> id, rules |-> rs,
                done |-> FALSE, out |-> NoValue] :
                    id \in RuleIdentities,
                    rs \in SeqsUpTo(RuleSet, MaxRules)}

CheckAllowRulesStep ==
    /\ fn.op = "checkIAMAllowRules"
    /\ ~fn.done
    /\ fn' = [fn EXCEPT !.done = TRUE,
                        !.out = checkIAMAllowRules(fn.identity, fn.rules)]
    /\ UNCHANGED <<pc, peerOk, nodeAddress, challenge, sent, req, token,
                   httpReq, cancelled, resp, identity, result, events>>

SpecRules == InitRules /\ [][CheckAllowRulesStep]_vars

(***************************************************************************)
(* validateSTSIdentityRequest as a function of its two parameters: any     *)
(* request parseSTSRequest can return and any expected challenge, the      *)
(* empty string included.                                                  *)
(***************************************************************************)
ExpectedChallenges == Challenges \cup {<<>>}

InitValidate ==
    /\ Idle
    /\ fn \in {[op |-> "validateSTSIdentityRequest", raw |-> raw,
                req |-> parseSTSRequest(raw).req, challenge |-> c,
                done |-> FALSE, out |-> NoValue] :
                    raw \in FlowRaws \ {RawMalformed},
                    c \in ExpectedChallenges}

ValidateStep ==
    /\ fn.op = "validateSTSIdentityRequest"
    /\ ~fn.done
    /\ fn' = [fn EXCEPT !.done = TRUE,
                        !.out = validateSTSIdentityRequest(fn.req, fn.challenge)]
    /\ UNCHANGED <<pc, peerOk, nodeAddress, challenge, sent, req, token,
                   httpReq, cancelled, resp, identity, result, events>>

SpecValidate == InitValidate /\ [][ValidateStep]_vars

(***************************************************************************)
(* Properties.                                                             *)
(***************************************************************************)
Called(op) == \E i \in 1..Len(events) : events[i].op = op
Count(op) == Cardinality({i \in 1..Len(events) : events[i].op = op})
Validated == Called("validateSTSIdentityRequest")
\* validation returned nil: the attempt went on to the identity endpoint
ValidationOk == Validated /\ (pc = "execute" \/ Called("Do"))
HdrChallenge == HeaderGet(httpReq.Header, challengeHeaderKey)
HdrAuth == HeaderGet(httpReq.Header, authHeaderKey)
SignedAuth == AuthHeader(<<"host", ";", "x-teleport-challenge">>)
\* Authorization headers whose SignedHeaders list lacks x-teleport-challenge
UnsignedAuths ==
    {AuthHeader(<<"host">>),
     AuthHeader(<<"x-teleport-challenge", "-2", ";", "host">>)}
\* Authorization headers outside the SignedHeaders grammar
UnparsableAuths == {<<>>, <<"Bearer", " ", "5d672d79c15b13162d9279b0855cfba6">>}
\* the body the node's bytes carry: what Content-Length delimits
BodySent ==
    LET raw == req.STSIdentityRequest
    IN  IF raw.contentLength <= 0 THEN <<>>
        ELSE Take(raw.payload, Min(raw.contentLength, Len(raw.payload)))
FourChecksPass ==
    /\ Validated
    /\ httpReq.Host = stsHost
    /\ httpReq.Method = MethodPost
    /\ HdrChallenge = challenge
    /\ HdrAuth = SignedAuth

\* C1: a request whose challenge header differs from the challenge of this
\* attempt is denied by the validator, whatever its other fields; a request
\* reaches the identity endpoint or certificate issuance only with the
\* challenge this attempt sent to the peer.
C1_AntiReplay ==
    /\ (Validated /\ HdrChallenge # challenge) =>
            /\ pc = "done"
            /\ result.class = "AccessDenied"
    /\ \A i \in 1..Len(events) :
            events[i].op \in {"Do", "RegisterUsingToken"} =>
                /\ Len(sent) >= 1
                /\ sent[1] = [Challenge |-> HdrChallenge]
                /\ HdrChallenge \in Challenges

C1_Witness ==
    /\ Validated
    /\ HdrChallenge \in Challenges
    /\ HdrChallenge # challenge
    /\ httpReq.Host = stsHost
    /\ httpReq.Method = MethodPost
    /\ HdrAuth = SignedAuth
    /\ BodySent = expectedSTSIdentityRequestBody
    /\ result = AccessDenied("challenge")

\* C2: a request whose SignedHeaders list lacks the challenge header is
\* denied even with a matching challenge header and correct host, method
\* and body, and is never sent to the identity endpoint.
C2_SignatureStripping ==
    (Validated /\ HdrAuth \in UnsignedAuths) =>
        /\ pc = "done"
        /\ result.class = "AccessDenied"
        /\ ~Called("Do")

C2_Witness ==
    /\ Validated
    /\ HdrAuth \in UnsignedAuths
    /\ httpReq.Host = stsHost
    /\ httpReq.Method = MethodPost
    /\ HdrChallenge = challenge
    /\ BodySent = expectedSTSIdentityRequestBody
    /\ result = AccessDenied("signed-headers")

\* C3: a request for any host other than sts.amazonaws.com is denied by the
\* validator whatever its other fields; the attempt ends without a call to
\* the identity endpoint and without certificates.
C3_HostCheck ==
    (Validated /\ httpReq.Host # stsHost) =>
        /\ pc = "done"
        /\ result.class = "AccessDenied"
        /\ ~Called("Do")
        /\ ~Called("RegisterUsingToken")

C3_Witness ==
    /\ Validated
    /\ httpReq.Host = "evil.example.com"
    /\ httpReq.Method = MethodPost
    /\ HdrChallenge = challenge
    /\ HdrAuth = SignedAuth
    /\ BodySent = expectedSTSIdentityRequestBody
    /\ result = AccessDenied("host")

\* C4: for a request passing the host, method, challenge and signed-header
\* checks, validation succeeds iff the body equals the expected literal, and
\* every other body is rejected as BadParameter.
C4_BodyCheck ==
    FourChecksPass =>
        IF BodySent = expectedSTSIdentityRequestBody
        THEN ValidationOk
        ELSE pc = "done" /\ result.class = "BadParameter"

\* C4 for the bodies that are read to their end (the declared length is
\* there): accepted iff equal to the literal, BadParameter otherwise.
C4_ReadableBody ==
    (FourChecksPass /\ ~httpReq.Body.fail) =>
        IF BodySent = expectedSTSIdentityRequestBody
        THEN ValidationOk
        ELSE pc = "done" /\ result.class = "BadParameter" /\ ~Called("Do")

\* the identities the rules of each token of the store admit
Admits(name, id) ==
    CASE name = "tok-1" -> id.Account = "111111111111"
      [] name = "tok-arn" ->
            \/ id.Account = "333333333333"
            \/ Len(id.Arn) >= 1 /\ id.Arn[1] = "a"
      [] OTHER -> FALSE

\* every stage before issuance succeeded
FullAccept ==
    /\ token # NoValue
    /\ req.Token \in {"tok-1", "tok-arn", "tok-none"}
    /\ req.STSIdentityRequest.wellFormed
    /\ FourChecksPass
    /\ BodySent = expectedSTSIdentityRequestBody
    /\ ~httpReq.Body.fail
    /\ resp # NoValue
    /\ resp.StatusCode = 200
    /\ resp.json
    /\ identity = resp.id
    /\ Admits(req.Token, identity)

\* C5: RegisterUsingToken is invoked at most once, only when token lookup,
\* join-method check, parse, validation, identity resolution and allow-rule
\* match all succeeded, and then always; token tok-1 (account 111111111111)
\* with resolved account 222222222222 ends AccessDenied with no invocation.
C5_IssueOnlyAfterAccept ==
    /\ Count("RegisterUsingToken") <= 1
    /\ Count("RegisterUsingToken") = 1 => FullAccept
    /\ (pc \in {"certs", "done"} /\ req # NoValue /\ FullAccept) =>
            Count("RegisterUsingToken") = 1
    /\ (/\ pc = "done"
        /\ identity # NoValue
        /\ req.Token = "tok-1"
        /\ identity.Account = "222222222222") =>
            /\ result.class = "AccessDenied"
            /\ Count("RegisterUsingToken") = 0

C5_Witness ==
    /\ pc = "done"
    /\ result = Nil
    /\ req.Token = "tok-1"
    /\ identity.Account = "111111111111"
    /\ Count("RegisterUsingToken") = 1

\* glob matching: "*" is any run of characters, "?" any one character,
\* every other character itself
RECURSIVE GlobMatch(_, _)
GlobMatch(pattern, str) ==
    IF pattern = <<>> THEN str = <<>>
    ELSE IF pattern[1] = "*"
        THEN \/ GlobMatch(Tail(pattern), str)
             \/ str # <<>> /\ GlobMatch(pattern, Tail(str))
    ELSE IF pattern[1] = "?"
        THEN str # <<>> /\ GlobMatch(Tail(pattern), Tail(str))
    ELSE str # <<>> /\ str[1] = pattern[1] /\ GlobMatch(Tail(pattern), Tail(str))

RuleMatches(rule, id) ==
    /\ rule.AWSAccount = "" \/ rule.AWSAccount = id.Account
    /\ rule.AWSARN = <<>> \/ GlobMatch(rule.AWSARN, id.Arn)

\* C6: checkIAMAllowRules returns nil iff some rule matches (each constraint
\* a rule sets matches; an unset one matches anything), and AccessDenied
\* otherwise, whatever the order of the rules.
C6_AllowRules ==
    (fn # NoValue /\ fn.op = "checkIAMAllowRules" /\ fn.done) =>
        IF \E i \in 1..Len(fn.rules) : RuleMatches(fn.rules[i], fn.identity)
        THEN fn.out = Nil
        ELSE fn.out.class = "AccessDenied"

\* C7: arnMatches(pattern, arn) is true exactly when the whole ARN matches
\* the pattern as a glob.
C7_GlobSemantics ==
    (fn # NoValue /\ fn.op = "arnMatches" /\ fn.done) =>
        fn.out = [matched |-> GlobMatch(fn.pattern, fn.arn), err |-> FALSE]

\* C8: once the context is cancelled with the identity-endpoint call in
\* flight, the attempt ends with an error that is neither nil nor
\* AccessDenied, the allow rules are never evaluated and RegisterUsingToken
\* is never invoked.
C8_Cancellation ==
    cancelled =>
        /\ pc \in {"do", "read", "done"}
        /\ pc = "done" => result.class \notin {"nil", "AccessDenied"}
        /\ ~Called("checkIAMAllowRules")
        /\ ~Called("RegisterUsingToken")

C8_Witness ==
    /\ cancelled
    /\ pc = "done"
    /\ resp = NoValue
    /\ result.class = "Wrapped"

\* C9: a peer whose token has a join method other than IAM is never sent a
\* challenge.
C9_NoChallengeForIneligible ==
    (req # NoValue /\ req.Token = "tok-ec2") => ~Called("Send")

\* C9 as amended: once looked up, a token with a join method other than IAM
\* ends the attempt with AccessDenied, after the challenge was sent and the
\* response received, with no parse, no call to the identity endpoint and no
\* issuance.
C9_IneligibleRejected ==
    (token # NoValue /\ req.Token = "tok-ec2") =>
        /\ pc = "done"
        /\ result.class = "AccessDenied"
        /\ sent = <<[Challenge |-> challenge]>>
        /\ ~Called("parseSTSRequest")
        /\ ~Called("Do")
        /\ ~Called("RegisterUsingToken")

C9_Witness ==
    /\ token # NoValue
    /\ req.Token = "tok-ec2"
    /\ result = AccessDenied("join-method")

\* C10: a body mismatch, an Authorization header outside the SignedHeaders
\* grammar, and raw bytes that are no HTTP request each end the attempt
\* with BadParameter.
C10_MalformedClass ==
    /\ (FourChecksPass /\ ~httpReq.Body.fail
            /\ BodySent # expectedSTSIdentityRequestBody) =>
            result.class = "BadParameter"
    /\ (/\ Validated
        /\ httpReq.Host = stsHost
        /\ httpReq.Method = MethodPost
        /\ HdrChallenge = challenge
        /\ HdrAuth \in UnparsableAuths) =>
            result.class = "BadParameter"
    /\ (Called("parseSTSRequest") /\ ~req.STSIdentityRequest.wellFormed) =>
            result.class = "BadParameter"

LastOp == IF events = <<>> THEN "" ELSE events[Len(events)].op
CertsSent == \E i \in 1..Len(sent) : "Certs" \in DOMAIN sent[i]
\* RegisterUsingToken returned certificates
IssuanceSucceeded ==
    /\ Called("RegisterUsingToken")
    /\ pc = "certs" \/ LastOp = "Send"
\* the attempt failed in the validator on one of its four denial checks
DeniedByValidator ==
    /\ LastOp = "validateSTSIdentityRequest"
    /\ \/ httpReq.Host # stsHost
       \/ httpReq.Method # MethodPost
       \/ HdrChallenge # challenge
       \/ HdrAuth # SignedAuth
DeniedByRules ==
    /\ LastOp = "checkIAMAllowRules"
    /\ ~Admits(req.Token, identity)

\* C11: an attempt that fails on an infrastructure failure (entropy, stream
\* send or receive, identity-endpoint non-200 or decode failure, token
\* store) does not end AccessDenied, and AccessDenied is returned only for
\* host, method, challenge, signed-header-set and allow-rule failures.
C11_ErrorClassesOriginal ==
    pc = "done" =>
        /\ (\/ LastOp \in {"rand.Read", "Recv", "Do"}
            \/ LastOp = "Send" /\ result # Nil
            \/ LastOp = "GetToken" /\ token = NoValue) =>
                result.class # "AccessDenied"
        /\ result.class = "AccessDenied" => DeniedByValidator \/ DeniedByRules

\* C11 as amended: entropy, send, receive, token-store, identity-endpoint
\* transport and decode failures do not end AccessDenied; a non-200 answer
\* of the identity endpoint does; AccessDenied otherwise comes only from
\* missing peer information, a token of another join method, the validator's
\* host, method, challenge and Authorization checks, the allow rules, or
\* RegisterUsingToken itself.
C11_ErrorClasses ==
    pc = "done" =>
        /\ (\/ LastOp \in {"rand.Read", "Recv"}
            \/ LastOp = "Send" /\ result # Nil
            \/ LastOp = "GetToken" /\ token = NoValue
            \/ LastOp = "Do" /\ (resp = NoValue \/ resp.StatusCode = 200)) =>
                result.class \notin {"AccessDenied", "nil"}
        /\ result.class = "AccessDenied" =>
                \/ ~peerOk
                \/ LastOp = "GetToken" /\ token # NoValue /\ token.JoinMethod # "iam"
                \/ DeniedByValidator
                \/ LastOp = "Do" /\ resp # NoValue /\ resp.StatusCode # 200
                \/ DeniedByRules
                \/ LastOp = "RegisterUsingToken"

C11_Witness ==
    /\ pc = "done"
    /\ LastOp = "Do"
    /\ resp # NoValue
    /\ resp.StatusCode = 200
    /\ ~resp.json
    /\ ~cancelled
    /\ result.class = "Wrapped"

\* C12: an attempt ends in exactly one terminal result, and whenever it
\* returns a failure, certificate issuance has not succeeded within it.
C12_NoPartialSuccessOriginal ==
    (pc = "done" /\ result # Nil) => ~IssuanceSucceeded

\* C12 as amended: an attempt has a result exactly when it has ended, takes
\* no step afterwards, and ends with nil only after one successful issuance
\* whose certificates were sent; when it ends with a failure, issuance has
\* not succeeded, unless the failure is that of sending the certificates.
C12_SingleOutcome ==
    /\ [](/\ pc = "done" <=> result # NoValue
          /\ (pc = "done" /\ result = Nil) =>
                /\ Count("RegisterUsingToken") = 1
                /\ CertsSent
          /\ (pc = "done" /\ result # Nil) =>
                /\ ~CertsSent
                /\ IssuanceSucceeded => LastOp = "Send")
    /\ [][pc # "done"]_vars

C12_Witness ==
    /\ pc = "done"
    /\ result.class = "Wrapped"
    /\ IssuanceSucceeded
    /\ LastOp = "Send"

(***************************************************************************)
(* Concurrent attempts.  Each call of registerUsingIAMMethod keeps its     *)
(* challenge, its request and its identity in local variables; the calls   *)
(* share the token store, the identity endpoint and the node side, where   *)
(* any peer may answer with a request bound to any challenge it has seen.  *)
(* fn.att[a] holds the locals of attempt a.                                *)
(***************************************************************************)
Attempts == 1..NumAttempts

TwoChallenges ==
    {Encode([i \in 1..ChallengeRawLen |-> b]) : b \in RandByteVals}

TwoRaw(host, c) ==
    [wellFormed |-> TRUE, method |-> "POST", target |-> "/",
     lines |-> Line("Host", host) \o Line("X-Teleport-Challenge", c)
               \o Line("Authorization",
                       AuthHeader(<<"host", ";", "x-teleport-challenge">>)),
     contentLength |-> 3, payload |-> expectedSTSIdentityRequestBody]

TwoMessages ==
    {[Token |-> name, STSIdentityRequest |-> raw] :
        name \in {"tok-1", "tok-ec2"},
        raw \in {TwoRaw(stsHost, c) : c \in TwoChallenges}
                \cup {TwoRaw("evil.example.com", c) : c \in TwoChallenges}}

TwoResponses ==
    {[StatusCode |-> 200, json |-> TRUE,
      id |-> [Account |-> "111111111111", Arn |-> <<"a", "b">>]],
     [StatusCode |-> 200, json |-> TRUE,
      id |-> [Account |-> "222222222222", Arn |-> <<"a", "b">>]],
     [StatusCode |-> 403, json |-> TRUE, id |-> <<>>]}

FreshAttempt ==
    [pc |-> "start", challenge |-> NoValue, msg |-> NoValue, resp |-> NoValue,
     result |-> NoValue]

InitTwo ==
    /\ Idle
    /\ fn = [op |-> "attempts", att |-> [a \in Attempts |-> FreshAttempt]]

\* a challenge kept in one variable shared by all attempts
AttemptChallenge_Shared(st, a) ==
    st.att[CHOOSE b \in Attempts :
                /\ st.att[b].challenge # NoValue
                /\ \A d \in Attempts :
                        st.att[d].challenge # NoValue => b <= d].challenge

\* challengeString of attempt a, as handed to checkIAMRequest
AttemptChallenge(st, a) == st.att[a].challenge

\* checkIAMRequest up to the call of the identity endpoint
CheckLocal(chal, msg) ==
    IF msg.Token \notin DOMAIN Tokens THEN NotFound("token")
    ELSE IF JoinMethodMismatch(Tokens[msg.Token])
        THEN AccessDenied("join-method")
    ELSE LET p == parseSTSRequest(msg.STSIdentityRequest) IN
        IF p.err # Nil THEN p.err
        ELSE validateSTSIdentityRequest(p.req, chal).err

\* checkIAMRequest and registerUsingIAMMethod after client.Do returned r
ResolveOutcomes(msg, r) ==
    IF r.StatusCode # StatusOK THEN {StatusErr(r)}
    ELSE IF ~r.json THEN {Wrapped("sts-json")}
    ELSE LET err == checkIAMAllowRules(r.id, Tokens[msg.Token].Allow) IN
        IF err # Nil THEN {err}
        ELSE {Nil, Wrapped("register"), Wrapped("send")}

TwoUnchanged ==
    UNCHANGED <<pc, peerOk, nodeAddress, challenge, sent, req, token,
                httpReq, cancelled, resp, identity, result, events>>

\* peer.FromContext, rand.Read and the Send of the challenge
TwoStart(a) ==
    /\ fn.att[a].pc = "start"
    /\ \/ \E err \in {AccessDenied("peer"), Wrapped("rand")} :
            fn' = [fn EXCEPT !.att[a].pc = "done", !.att[a].result = err]
       \/ \E c \in TwoChallenges :
            \/ fn' = [fn EXCEPT !.att[a].challenge = c, !.att[a].pc = "recv"]
            \/ fn' = [fn EXCEPT !.att[a].challenge = c, !.att[a].pc = "done",
                                !.att[a].result = Wrapped("send")]
    /\ TwoUnchanged

\* srv.Recv
TwoRecv(a) ==
    /\ fn.att[a].pc = "recv"
    /\ \/ fn' = [fn EXCEPT !.att[a].pc = "done",
                           !.att[a].result = Wrapped("recv")]
       \/ \E m \in TwoMessages :
            fn' = [fn EXCEPT !.att[a].msg = m, !.att[a].pc = "check"]
    /\ TwoUnchanged

\* GetToken, parseSTSRequest, validateSTSIdentityRequest
TwoCheck(a) ==
    /\ fn.att[a].pc = "check"
    /\ \/ fn' = [fn EXCEPT !.att[a].pc = "done",
                           !.att[a].result = Wrapped("token-store")]
       \/ LET err == CheckLocal(AttemptChallenge(fn, a), fn.att[a].msg) IN
            IF err # Nil
            THEN fn' = [fn EXCEPT !.att[a].pc = "done", !.att[a].result = err]
            ELSE fn' = [fn EXCEPT !.att[a].pc = "do"]
    /\ TwoUnchanged

\* client.Do, the allow rules, RegisterUsingToken and the Send of the certs
TwoResolve(a) ==
    /\ fn.att[a].pc = "do"
    /\ \/ fn' = [fn EXCEPT !.att[a].pc = "done", !.att[a].result = DoErr]
       \/ \E r \in TwoResponses, out \in [class : {"nil", "AccessDenied", "Wrapped"},
                                          at : {"", "sts-status", "allow-rules",
                                                "register", "send"},
                                          detail : {<<>>}] :
            /\ out \in ResolveOutcomes(fn.att[a].msg, r)
            /\ fn' = [fn EXCEPT !.att[a].pc = "done", !.att[a].resp = r,
                                !.att[a].result = out]
    /\ TwoUnchanged

NextTwo == \E a \in Attempts : TwoStart(a) \/ TwoRecv(a) \/ TwoCheck(a) \/ TwoResolve(a)

SpecTwo == InitTwo /\ [][NextTwo]_vars

\* the challenge a received request is bound to
BoundChallenge(msg) ==
    HeaderGet(ReadMIMEHeader(msg.STSIdentityRequest.lines), challengeHeaderKey)

\* attempt a handed its request to the identity endpoint
ReachedEndpoint(a) ==
    \/ fn.att[a].pc = "do"
    \/ fn.att[a].resp # NoValue
    \/ fn.att[a].pc = "done" /\ fn.att[a].result = DoErr

AttemptAccepted(a) == fn.att[a].pc = "done" /\ fn.att[a].result = Nil

\* the outcomes an attempt running alone can have from the locals at
SoloOutcomes(at) ==
    IF at.challenge = NoValue THEN {AccessDenied("peer"), Wrapped("rand")}
    ELSE IF at.msg = NoValue THEN {Wrapped("send"), Wrapped("recv")}
    ELSE IF at.resp = NoValue
        THEN {Wrapped("token-store"),
              IF CheckLocal(at.challenge, at.msg) # Nil
              THEN CheckLocal(at.challenge, at.msg) ELSE DoErr}
    ELSE ResolveOutcomes(at.msg, at.resp)

C14_NoPolicyLeak ==
    (fn # NoValue /\ fn.op = "checkIAMAllowRules" /\ fn.done /\ fn.out # Nil)
        => fn.out = AccessDenied("allow-rules")

\* the request as parseSTSRequest returned it: its body not read
BodyUnread == httpReq = parseSTSRequest(req.STSIdentityRequest).req

BodyWrong == httpReq.Body.fail \/ BodySent # expectedSTSIdentityRequestBody

\* C15: validateSTSIdentityRequest returns the error of the first failing
\* check in the order host, method, challenge, signed headers, body, and it
\* has not read the body when one of the first four checks failed.
C15_CheckOrder ==
    LastOp = "validateSTSIdentityRequest" =>
        IF httpReq.Host # stsHost
        THEN result = AccessDenied("host") /\ BodyUnread
        ELSE IF httpReq.Method # MethodPost
        THEN result = AccessDenied("method") /\ BodyUnread
        ELSE IF HdrChallenge # challenge
        THEN result = AccessDenied("challenge") /\ BodyUnread
        ELSE IF HdrAuth # SignedAuth
        THEN /\ result \in {AccessDenied("auth-header"),
                            AccessDenied("signed-headers")}
             /\ BodyUnread
        ELSE IF BodyWrong
        THEN result \in {BadParameter("body"), Wrapped("body-read")}
        ELSE pc = "execute" /\ result = NoValue

\* a request with a wrong host and a wrong body was denied for its host, and
\* its body, which would fail to read, was left untouched
C15_Witness ==
    /\ LastOp = "validateSTSIdentityRequest"
    /\ httpReq.Host # stsHost
    /\ httpReq.Method # MethodPost
    /\ HdrChallenge # challenge
    /\ HdrAuth # SignedAuth
    /\ httpReq.Body.fail
    /\ httpReq.Body.pos = 0
    /\ result = AccessDenied("host")

\* the raw request has no X-Teleport-Challenge line, in any letter case
NoChallengeLine(raw) ==
    \A i \in 1..Len(raw.lines) :
        CanonicalMIMEHeaderKey(raw.lines[i][1])
            # CanonicalMIMEHeaderKey(challengeHeaderKey)

ParsedRequest == parseSTSRequest(req.STSIdentityRequest).req

\* the request is ParsedRequest in all but its body, and reading its body
\* gives the bytes that reading ParsedRequest's body gives
SameAsParsed(r) ==
    /\ [r EXCEPT !.Body = ParsedRequest.Body] = ParsedRequest
    /\ ReadAll(r.Body).bytes = ReadAll(ParsedRequest.Body).bytes

\* C17 as stated: whenever validateSTSIdentityRequest got as far as reading
\* the body, the request afterwards yields the bytes it held before the call
\* and is otherwise unchanged.
C17_BodyRestoredAfterAnyRead ==
    FourChecksPass => SameAsParsed(httpReq)

\* C17 amended: when the read of the body succeeded, the request afterwards
\* yields without error the bytes it held before the call and is otherwise
\* unchanged, whether or not the bytes equal the literal; the request handed
\* to the identity endpoint always has the body parsed from the node's bytes.
C17_BodyRestored ==
    /\ (FourChecksPass /\ ~ParsedRequest.Body.fail) =>
            /\ SameAsParsed(httpReq)
            /\ ~ReadAll(httpReq.Body).err
    /\ \A i \in 1..Len(events) :
            events[i].op = "Do" =>
                /\ SameAsParsed(events[i].arg)
                /\ ~ReadAll(events[i].arg.Body).err

\* a body of several bytes other than the literal was read, compared and
\* refused, and is back in the request
C17_Witness ==
    /\ LastOp = "validateSTSIdentityRequest"
    /\ FourChecksPass
    /\ result = BadParameter("body")
    /\ httpReq.Body = NewBuffer(<<"Action=GetSessionToken", "&",
                                  "Version=2011-06-15">>)

\* C18: client.Do is called at most once, after parseSTSRequest and a
\* validateSTSIdentityRequest against this attempt's challenge, and with a
\* request for https://sts.amazonaws.com whose Host is sts.amazonaws.com,
\* whose method is POST, whose challenge header is this attempt's challenge,
\* which signs that header, and whose body is the fixed literal.
C18_OnlyValidatedReachEndpoint ==
    /\ Count("Do") <= 1
    /\ \A i \in 1..Len(events) :
        events[i].op = "Do" =>
            LET r == events[i].arg IN
            /\ \E j \in 1..(i - 1) : events[j].op = "parseSTSRequest"
            /\ \E j \in 1..(i - 1) :
                    /\ events[j].op = "validateSTSIdentityRequest"
                    /\ events[j].arg = challenge
            /\ r.URL = [Scheme |-> "https", Host |-> "sts.amazonaws.com"]
            /\ r.Host = "sts.amazonaws.com"
            /\ r.Method = "POST"
            /\ HeaderGet(r.Header, challengeHeaderKey) = challenge
            /\ HeaderGet(r.Header, authHeaderKey) = SignedAuth
            /\ ReadAll(r.Body) =
                    [bytes |-> <<"Action=GetCallerIdentity", "&",
                                 "Version=2011-06-15">>,
                     err |-> FALSE,
                     body |-> [data |-> <<"Action=GetCallerIdentity", "&",
                                          "Version=2011-06-15">>,
                               pos |-> 3, fail |-> FALSE]]

\* the node's bytes named the endpoint in the request line and another host
\* in the Host line, and the call went out
C18_Witness ==
    /\ Called("Do")
    /\ req.STSIdentityRequest.target = "https://sts.amazonaws.com/"
    /\ req.STSIdentityRequest.lines[1] = <<"Host", "evil.example.com">>

\* the calls of one attempt, in the order of the code
StepOrder ==
    <<"peer.FromContext", "rand.Read", "Send", "Recv", "GetToken",
      "parseSTSRequest", "validateSTSIdentityRequest", "Do",
      "checkIAMAllowRules", "RegisterUsingToken", "Send">>

\* C19: the calls made so far are an initial part of StepOrder, each made
\* once; after a failed Send of the challenge or a failed Recv the attempt
\* is over with that error and no later call has been made.
C19_StepOrder ==
    /\ Len(events) <= Len(StepOrder)
    /\ \A i \in 1..Len(events) : events[i].op = StepOrder[i]
    /\ (Len(events) >= 3 /\ sent = <<>>) =>
            /\ Len(events) = 3
            /\ pc = "done"
            /\ result = Wrapped("send")
    /\ (Len(events) >= 4 /\ req = NoValue) =>
            /\ Len(events) = 4
            /\ pc = "done"
            /\ result = Wrapped("recv")

\* an attempt that made every call and sent the certificates
C19_Witness ==
    /\ Len(events) = Len(StepOrder)
    /\ pc = "done"
    /\ result = Nil
    /\ Len(sent) = 2

\* the message srv.Recv returned
Received == events[4].arg

\* C20: the request handed to RegisterUsingToken carries the peer address
\* of the stream as RemoteAddr, whatever RemoteAddr the node wrote, and the
\* token name and request bytes the node sent; without peer information the
\* attempt ends with AccessDenied and no challenge is generated or sent.
C20_PeerAddress ==
    /\ \A i \in 1..Len(events) :
        events[i].op = "RegisterUsingToken" =>
            /\ events[i].arg.RemoteAddr = nodeAddress
            /\ events[i].arg.Token = Received.Token
            /\ events[i].arg.STSIdentityRequest = Received.STSIdentityRequest
    /\ (~peerOk /\ events # <<>>) =>
            /\ pc = "done"
            /\ result.class = "AccessDenied"
            /\ Len(events) = 1
            /\ challenge = NoValue
            /\ sent = <<>>

\* issuance was invoked for a node that claimed an address of its own
C20_Witness ==
    /\ Called("RegisterUsingToken")
    /\ Received.RemoteAddr = "6.6.6.6:3025"
    /\ req.RemoteAddr = "10.0.0.7:3025"

====
